---- MODULE Spec2Model ----
(***************************************************************************)
(* Model of the program lookup and time-shift playlist resolution of the   *)
(* radiko client: GetStations, GetProgramsByStation, FindProgramByStation, *)
(* GetProgramByStartTime (program.go) and TimeshiftPlaylistM3U8            *)
(* (timeshift.go).  One client call is in progress at a time; the remote   *)
(* service's answers are chosen nondeterministically.                      *)
(*                                                                         *)
(* Strings that the code parses or compares character-wise (Ft, To, the    *)
(* formatted target) are sequences of one-character strings.  A Go pointer *)
(* or error that may be nil is a sequence of length 0 (nil) or 1.          *)
(***************************************************************************)
EXTENDS Integers, Sequences, FiniteSets, TLC

VARIABLES
    pc,         \* position of the call in progress
    op,         \* the public operation the caller invoked
    stationID,  \* argument stationID / stationId
    start,      \* argument start / date: seconds since 2024-01-01T00:00:00 JST
    fetched,    \* the schedule response was decoded successfully
    snapshot,   \* the decoded stationsData.XMLStations.Stations
    progs,      \* FindProgramByStation: the list returned by GetProgramsByStation
    prog,       \* the *Prog found by the lookup (nil or one program)
    req,        \* TimeshiftPlaylistM3U8: the *http.Request built (nil or one)
    reqErr,     \* TimeshiftPlaylistM3U8: the error newRequest returned (nil or one)
    netlog,     \* the network exchanges issued by this call, in order
    ret         \* what the call returned

vars == <<pc, op, stationID, start, fetched, snapshot, progs, prog, req, reqErr, netlog, ret>>

-----------------------------------------------------------------------------
(* Bounds and input sets *)

\* a snapshot holds at most MaxSize stations and programs altogether
MaxSize == 4

StationIDs == {"", "JOAK"}
SnapshotIDs == {"JOAK", "JOLK"}

\* 05:00:00, 05:00:01 and 06:00:00 of 2024-01-01
Instants == {18000, 18001, 21600}

-----------------------------------------------------------------------------
(* Strings and numbers *)

DigitChars == <<"0", "1", "2", "3", "4", "5", "6", "7", "8", "9">>

IsDigit(c) == \E i \in 1..10 : DigitChars[i] = c

DigitVal(c) == (CHOOSE i \in 1..10 : DigitChars[i] = c) - 1

\* n written with two digits, zero-padded
Pad2(n) == <<DigitChars[((n \div 10) % 10) + 1], DigitChars[(n % 10) + 1]>>

\* n written with four digits, zero-padded
Pad4(n) == Pad2(n \div 100) \o Pad2(n % 100)

\* util.Datetime: layout "20060102150405" of the instant in JST
Datetime(t) ==
    Pad4(2024) \o Pad2(1) \o Pad2(1 + (t \div 86400))
        \o Pad2((t % 86400) \div 3600) \o Pad2((t % 3600) \div 60) \o Pad2(t % 60)

RECURSIVE StripZeros(_)
StripZeros(s) ==
    IF s # <<>> /\ Head(s) = "0" THEN StripZeros(Tail(s)) ELSE s

\* a < b for magnitudes written without leading zeros
RECURSIVE LexLess(_, _)
LexLess(a, b) ==
    IF a = <<>> THEN FALSE
    ELSE IF DigitVal(Head(a)) # DigitVal(Head(b))
         THEN DigitVal(Head(a)) < DigitVal(Head(b))
         ELSE LexLess(Tail(a), Tail(b))

MagLess(a, b) ==
    IF Len(a) # Len(b) THEN Len(a) < Len(b) ELSE LexLess(a, b)

\* an int: sign and magnitude (decimal digits, no leading zeros)
IntLess(x, y) ==
    IF x.neg /\ ~y.neg THEN TRUE
    ELSE IF ~x.neg /\ y.neg THEN FALSE
    ELSE IF x.neg THEN MagLess(y.mag, x.mag)
    ELSE MagLess(x.mag, y.mag)

IntLeq(x, y) == x = y \/ IntLess(x, y)

\* 2^63 - 1, the largest int of a 64-bit build
MaxInt64Mag ==
    <<"9", "2", "2", "3", "3", "7", "2", "0", "3", "6", "8", "5", "4", "7", "7", "5", "8", "0", "7">>

\* 2^63
MinInt64Mag ==
    <<"9", "2", "2", "3", "3", "7", "2", "0", "3", "6", "8", "5", "4", "7", "7", "5", "8", "0", "8">>

Zero == [neg |-> FALSE, mag |-> <<>>]

-----------------------------------------------------------------------------
(* Error values.  id is the identity of the value: two errors are == in Go  *)
(* exactly when they are the same value.                                    *)

Err(id, msg) == <<[id |-> id, msg |-> msg]>>

NoErr == <<>>

\* the package variable ErrProgramNotFound
ErrProgramNotFound == Err("ErrProgramNotFound", "program not found")

\* errors.New allocates a new value at each evaluation
ErrorsNew(msg) == Err("errors.New", msg)

\* *strconv.NumError
NumError(fn, why) == Err("strconv.NumError", why)

\* strconv.Atoi
Atoi(s) ==
    LET signed == s # <<>> /\ Head(s) \in {"+", "-"}
        body   == IF signed THEN Tail(s) ELSE s
    IN  IF body = <<>> \/ \E i \in 1..Len(body) : ~IsDigit(body[i])
        THEN [val |-> Zero, err |-> NumError("Atoi", "invalid syntax")]
        ELSE LET mag == StripZeros(body)
                 neg == signed /\ Head(s) = "-"
             IN  IF (neg /\ MagLess(MinInt64Mag, mag)) \/ (~neg /\ MagLess(MaxInt64Mag, mag))
                 THEN [val |-> Zero, err |-> NumError("Atoi", "value out of range")]
                 ELSE [val |-> [neg |-> neg /\ mag # <<>>, mag |-> mag], err |-> NoErr]

-----------------------------------------------------------------------------
(* Schedule records: Prog, Station, and the snapshots the service may send *)

\* a non-numeric timestamp
Malformed == [Datetime(18000) EXCEPT ![14] = "x"]

FtPool == {Datetime(18000), Datetime(18001), Malformed}

ToPool == {Datetime(18001), Datetime(21600), Malformed}

\* Prog: the fields the lookups read; the programs of the model have distinct
\* start and end markers
ProgPool == {p \in [Ft : FtPool, To : ToPool] : p.Ft # p.To}

\* Station: ID and Progs.Progs
Station(id, ps) == [ID |-> id, Progs |-> ps]

\* Stations of at most b stations and programs altogether
RECURSIVE Snaps(_)
Snaps(b) ==
    IF b = 0 THEN {<<>>}
    ELSE {<<>>} \cup
         UNION { { <<Station(id, ps)>> \o rest :
                     id \in SnapshotIDs, ps \in [1..n -> ProgPool], rest \in Snaps(b - 1 - n) } :
                 n \in 0..(b - 1) }

Snapshots == Snaps(MaxSize)

Ops == {"TimeshiftPlaylistM3U8", "GetProgramByStartTime", "FindProgramByStation"}

-----------------------------------------------------------------------------
(* The lookups *)

\* mutant of ScanProgs: the end marker is compared instead of the start marker
RECURSIVE ScanProgsByTo(_, _)
ScanProgsByTo(ps, ft) ==
    IF ps = <<>> THEN <<>>
    ELSE IF Head(ps).To = ft THEN <<Head(ps)>>
    ELSE ScanProgsByTo(Tail(ps), ft)

\* GetProgramByStartTime, inner loop: the first program of ps whose Ft is ft
RECURSIVE ScanProgs(_, _)
ScanProgs(ps, ft) ==
    IF ps = <<>> THEN <<>>
    ELSE IF Head(ps).Ft = ft THEN <<Head(ps)>>
    ELSE ScanProgs(Tail(ps), ft)

\* GetProgramByStartTime, outer loop: every station is visited; a station with
\* the ID and a program starting at ft overwrites what was found before
RECURSIVE ScanStations(_, _, _, _)
ScanStations(stations, sid, ft, found) ==
    IF stations = <<>> THEN found
    ELSE LET s   == Head(stations)
             hit == IF s.ID = sid THEN ScanProgs(s.Progs, ft) ELSE <<>>
         IN  ScanStations(Tail(stations), sid, ft, IF hit # <<>> THEN hit ELSE found)

\* mutant of FindLoop: the end of the interval is inclusive (to >= target)
RECURSIVE FindLoopClosedEnd(_, _)
FindLoopClosedEnd(ps, target) ==
    IF ps = <<>> THEN [prog |-> <<>>, err |-> ErrorsNew("CAN'T FIND THE PROGRAM")]
    ELSE LET from == Atoi(Head(ps).Ft)
             to   == Atoi(Head(ps).To)
         IN  IF from.err # NoErr THEN [prog |-> <<>>, err |-> from.err]
             ELSE IF to.err # NoErr THEN [prog |-> <<>>, err |-> to.err]
             ELSE IF IntLeq(from.val, target) /\ IntLeq(target, to.val)
                  THEN [prog |-> <<Head(ps)>>, err |-> NoErr]
                  ELSE FindLoopClosedEnd(Tail(ps), target)

\* mutant of FindLoop: a program whose Ft or To does not parse is skipped
RECURSIVE FindLoopSkipMalformed(_, _)
FindLoopSkipMalformed(ps, target) ==
    IF ps = <<>> THEN [prog |-> <<>>, err |-> ErrorsNew("CAN'T FIND THE PROGRAM")]
    ELSE LET from == Atoi(Head(ps).Ft)
             to   == Atoi(Head(ps).To)
         IN  IF from.err # NoErr \/ to.err # NoErr
             THEN FindLoopSkipMalformed(Tail(ps), target)
             ELSE IF IntLeq(from.val, target) /\ IntLess(target, to.val)
                  THEN [prog |-> <<Head(ps)>>, err |-> NoErr]
                  ELSE FindLoopSkipMalformed(Tail(ps), target)

\* FindProgramByStation, the loop over progs and the return after it
RECURSIVE FindLoop(_, _)
FindLoop(ps, target) ==
    IF ps = <<>> THEN [prog |-> <<>>, err |-> ErrorsNew("CAN'T FIND THE PROGRAM")]
    ELSE LET from == Atoi(Head(ps).Ft)
             to   == Atoi(Head(ps).To)
         IN  IF from.err # NoErr THEN [prog |-> <<>>, err |-> from.err]
             ELSE IF to.err # NoErr THEN [prog |-> <<>>, err |-> to.err]
             ELSE IF IntLeq(from.val, target) /\ IntLess(target, to.val)
                  THEN [prog |-> <<Head(ps)>>, err |-> NoErr]
                  ELSE FindLoop(Tail(ps), target)

\* stationsData.programs: the programs of the first station; ok is FALSE when
\* the index 0 is out of range (a run-time panic)
Programs(d) ==
    IF Len(d) = 0 THEN [ok |-> FALSE, progs |-> <<>>]
    ELSE [ok |-> TRUE, progs |-> d[1].Progs]

-----------------------------------------------------------------------------
(* Results and the network *)

NoRet == [status |-> "none", prog |-> <<>>, uri |-> "", err |-> NoErr]

RetErr(e) == [status |-> "returned", prog |-> <<>>, uri |-> "", err |-> e]

RetProg(p) == [status |-> "returned", prog |-> p, uri |-> "", err |-> NoErr]

RetURI(u) == [status |-> "returned", prog |-> <<>>, uri |-> u, err |-> NoErr]

Panic == [status |-> "panic", prog |-> <<>>, uri |-> "", err |-> NoErr]

\* an exchange with the service: which call sent it and, for the playlist
\* request, its query parameters
Exchange(call, query) == [call |-> call, query |-> query]

\* the outcomes of newRequest, c.Do and decodeStationsData for one fetch
FetchOutcomes == {"newRequest", "Do", "decode", "ok"}

FetchErr(out) == Err(out, "fetch failed")

\* mutant of PlaylistQuery: to is taken from the start marker
PlaylistQueryToFromFt(sid, p) == [station_id |-> sid, ft |-> p.Ft, to |-> p.Ft, l |-> "15"]

\* what c.CallWithAuthTokenHeader(nil) comes to: a nil dereference, or an error
NilRequestOutcomes == {Panic, RetErr(Err("Do", "nil request"))}

\* the query of the playlist request
PlaylistQuery(sid, p) == [station_id |-> sid, ft |-> p.Ft, to |-> p.To, l |-> "15"]

-----------------------------------------------------------------------------
(* The state machine *)

Init ==
    /\ pc = "idle"
    /\ op = "none"
    /\ stationID = ""
    /\ start = 0
    /\ fetched = FALSE
    /\ snapshot = <<>>
    /\ progs = <<>>
    /\ prog = <<>>
    /\ req = <<>>
    /\ reqErr = NoErr
    /\ netlog = <<>>
    /\ ret = NoRet

\* the caller invokes one of the public operations
Invoke ==
    /\ pc = "idle"
    /\ \E o \in Ops, s \in StationIDs, t \in Instants :
          /\ op' = o
          /\ stationID' = s
          /\ start' = t
          /\ pc' = IF o = "FindProgramByStation" THEN "GetProgramsByStation"
                   ELSE "GetProgramByStartTime"
    /\ UNCHANGED <<fetched, snapshot, progs, prog, req, reqErr, netlog, ret>>

\* mutant of GetProgramByStartTimeEntry: the station ID is not validated
GetProgramByStartTimeEntryNoCheck ==
    /\ pc = "GetProgramByStartTime"
    /\ pc' = "GetStations"
    /\ UNCHANGED <<op, stationID, start, fetched, snapshot, progs, prog, req, reqErr, netlog, ret>>

\* GetProgramByStartTime up to the call of GetStations (TimeshiftPlaylistM3U8
\* enters it at once and returns "", err when it fails)
GetProgramByStartTimeEntry ==
    /\ pc = "GetProgramByStartTime"
    /\ IF stationID = ""
       THEN /\ ret' = RetErr(ErrorsNew("StationID is empty"))
            /\ pc' = "done"
       ELSE /\ pc' = "GetStations"
            /\ ret' = ret
    /\ UNCHANGED <<op, stationID, start, fetched, snapshot, progs, prog, req, reqErr, netlog>>

\* mutant of GetStations: a request that failed in transport is sent once more
GetStationsRetry ==
    /\ pc = "GetStations"
    /\ \E out \in FetchOutcomes :
          /\ netlog' = IF out = "newRequest" THEN netlog
                       ELSE IF out = "Do"
                            THEN netlog \o <<Exchange("GetStations", <<>>), Exchange("GetStations", <<>>)>>
                            ELSE Append(netlog, Exchange("GetStations", <<>>))
          /\ IF out = "ok"
             THEN /\ \E d \in Snapshots : snapshot' = d
                  /\ fetched' = TRUE
                  /\ pc' = "scan"
                  /\ ret' = ret
             ELSE /\ ret' = RetErr(FetchErr(out))
                  /\ pc' = "done"
                  /\ UNCHANGED <<fetched, snapshot>>
    /\ UNCHANGED <<op, stationID, start, progs, prog, req, reqErr>>

\* GetStations: build the request, send it, decode the answer
GetStations ==
    /\ pc = "GetStations"
    /\ \E out \in FetchOutcomes :
          /\ netlog' = IF out = "newRequest" THEN netlog
                       ELSE Append(netlog, Exchange("GetStations", <<>>))
          /\ IF out = "ok"
             THEN /\ \E d \in Snapshots : snapshot' = d
                  /\ fetched' = TRUE
                  /\ pc' = "scan"
                  /\ ret' = ret
             ELSE /\ ret' = RetErr(FetchErr(out))
                  /\ pc' = "done"
                  /\ UNCHANGED <<fetched, snapshot>>
    /\ UNCHANGED <<op, stationID, start, progs, prog, req, reqErr>>

\* GetProgramByStartTime after GetStations returned the stations
GetProgramByStartTimeScan ==
    /\ pc = "scan"
    /\ LET found == ScanStations(snapshot, stationID, Datetime(start), <<>>)
       IN  /\ prog' = found
           /\ IF found = <<>>
              THEN ret' = RetErr(ErrProgramNotFound) /\ pc' = "done"
              ELSE IF op = "GetProgramByStartTime"
                   THEN ret' = RetProg(found) /\ pc' = "done"
                   ELSE ret' = ret /\ pc' = "newRequest"
    /\ UNCHANGED <<op, stationID, start, fetched, snapshot, progs, req, reqErr, netlog>>

\* TimeshiftPlaylistM3U8: the playlist request is built; its error is not read
TimeshiftNewRequest ==
    /\ pc = "newRequest"
    /\ \E ok \in BOOLEAN :
          /\ req' = IF ok THEN <<PlaylistQuery(stationID, prog[1])>> ELSE <<>>
          /\ reqErr' = IF ok THEN NoErr ELSE Err("newRequest", "request construction failed")
    /\ pc' = "CallWithAuthTokenHeader"
    /\ UNCHANGED <<op, stationID, start, fetched, snapshot, progs, prog, netlog, ret>>

\* TimeshiftPlaylistM3U8: c.CallWithAuthTokenHeader(req) and the check of its error.
\* With a nil request nothing is sent: the call panics or returns an error.
TimeshiftCallWithAuthTokenHeader ==
    /\ pc = "CallWithAuthTokenHeader"
    /\ IF req = <<>>
       THEN /\ netlog' = netlog
            /\ pc' = "done"
            /\ ret' \in NilRequestOutcomes
       ELSE /\ netlog' = Append(netlog, Exchange("playlist", req))
            /\ \E sent \in BOOLEAN :
                  IF sent THEN pc' = "GetURIFromM3U8" /\ ret' = ret
                  ELSE pc' = "done" /\ ret' = RetErr(Err("Do", "fetch failed"))
    /\ UNCHANGED <<op, stationID, start, fetched, snapshot, progs, prog, req, reqErr>>

\* TimeshiftPlaylistM3U8: return internal.GetURIFromM3U8(resp.Body)
TimeshiftGetURIFromM3U8 ==
    /\ pc = "GetURIFromM3U8"
    /\ ret' \in {RetURI("chunklist.m3u8"), RetErr(Err("m3u8", "no uri"))}
    /\ pc' = "done"
    /\ UNCHANGED <<op, stationID, start, fetched, snapshot, progs, prog, req, reqErr, netlog>>

\* GetProgramsByStation, called first by FindProgramByStation
GetProgramsByStation ==
    /\ pc = "GetProgramsByStation"
    /\ \E out \in FetchOutcomes :
          /\ netlog' = IF out = "newRequest" THEN netlog
                       ELSE Append(netlog, Exchange("GetProgramsByStation", <<>>))
          /\ IF out = "ok"
             THEN \E d \in Snapshots :
                     /\ snapshot' = d
                     /\ fetched' = TRUE
                     /\ progs' = Programs(d).progs
                     /\ IF Programs(d).ok
                        THEN pc' = "FindProgramByStation" /\ ret' = ret
                        ELSE pc' = "done" /\ ret' = Panic
             ELSE /\ ret' = RetErr(FetchErr(out))
                  /\ pc' = "done"
                  /\ UNCHANGED <<fetched, snapshot, progs>>
    /\ UNCHANGED <<op, stationID, start, prog, req, reqErr>>

\* FindProgramByStation after GetProgramsByStation returned the programs
FindProgramByStationScan ==
    /\ pc = "FindProgramByStation"
    /\ LET target == Atoi(Datetime(start))
           r      == IF target.err # NoErr THEN [prog |-> <<>>, err |-> target.err]
                     ELSE FindLoop(progs, target.val)
       IN  /\ prog' = r.prog
           /\ ret' = [status |-> "returned", prog |-> r.prog, uri |-> "", err |-> r.err]
    /\ pc' = "done"
    /\ UNCHANGED <<op, stationID, start, fetched, snapshot, progs, req, reqErr, netlog>>

\* the call is over; nothing of it is kept
Return ==
    /\ pc = "done"
    /\ pc' = "idle"
    /\ op' = "none"
    /\ stationID' = ""
    /\ start' = 0
    /\ fetched' = FALSE
    /\ snapshot' = <<>>
    /\ progs' = <<>>
    /\ prog' = <<>>
    /\ req' = <<>>
    /\ reqErr' = NoErr
    /\ netlog' = <<>>
    /\ ret' = NoRet

Next ==
    \/ Invoke
    \/ GetProgramByStartTimeEntry
    \/ GetStations
    \/ GetProgramByStartTimeScan
    \/ TimeshiftNewRequest
    \/ TimeshiftCallWithAuthTokenHeader
    \/ TimeshiftGetURIFromM3U8
    \/ GetProgramsByStation
    \/ FindProgramByStationScan
    \/ Return

Spec == Init /\ [][Next]_vars

-----------------------------------------------------------------------------
(* Vocabulary of the properties.  None of this models code: it restates     *)
(* what the lookups are expected to compute, without using them.            *)

Ts050000 == <<"2", "0", "2", "4", "0", "1", "0", "1", "0", "5", "0", "0", "0", "0">>
Ts050001 == <<"2", "0", "2", "4", "0", "1", "0", "1", "0", "5", "0", "0", "0", "1">>
Ts060000 == <<"2", "0", "2", "4", "0", "1", "0", "1", "0", "6", "0", "0", "0", "0">>

Finished(o) == pc = "done" /\ op = o

Numeric(s) == s # <<>> /\ \A i \in 1..Len(s) : IsDigit(s[i])

WellFormed(p) == Numeric(p.Ft) /\ Numeric(p.To)

\* the instant a well-formed timestamp of the schedule denotes
TimeOf(s) == IF s = Ts050000 THEN 18000 ELSE IF s = Ts050001 THEN 18001 ELSE 21600

\* Ft <= t < To
Covers(p, t) == WellFormed(p) /\ TimeOf(p.Ft) <= t /\ t < TimeOf(p.To)

Least(S) == CHOOSE i \in S : \A j \in S : i <= j

\* positions in ps of the programs starting exactly at instant t
StartsAt(ps, t) == {j \in 1..Len(ps) : ps[j].Ft = Datetime(t)}

\* positions in the snapshot of the stations with the ID that list a program starting at t
StationsWithStart(sid, t) ==
    {i \in 1..Len(snapshot) : snapshot[i].ID = sid /\ StartsAt(snapshot[i].Progs, t) # {}}

NotFoundByContainment == ErrorsNew("CAN'T FIND THE PROGRAM")

PlaylistSent == \E k \in 1..Len(netlog) : netlog[k].call = "playlist"

-----------------------------------------------------------------------------
(* C1 *)

\* C1: GetProgramByStartTime on a decoded snapshot returns a program iff some
\* station with the ID lists a program whose Ft is the 14-digit formatting of
\* the instant; the program returned then has that Ft; otherwise it returns
\* ErrProgramNotFound and no program.
C1_ExactStartIff ==
    (Finished("GetProgramByStartTime") /\ fetched) =>
        /\ stationID # ""
        /\ ret.status = "returned"
        /\ IF StationsWithStart(stationID, start) # {}
           THEN /\ ret.err = NoErr
                /\ ret.prog # <<>>
                /\ ret.prog[1].Ft = Datetime(start)
                /\ \E i \in StationsWithStart(stationID, start) :
                      \E j \in StartsAt(snapshot[i].Progs, start) :
                         ret.prog[1] = snapshot[i].Progs[j]
           ELSE ret = RetErr(ErrProgramNotFound)

\* scenario A: JOAK lists 05:00:00-06:00:00 and the lookup at 05:00:00 returns it
C1_Witness ==
    /\ Finished("GetProgramByStartTime")
    /\ stationID = "JOAK"
    /\ start = 18000
    /\ snapshot = <<Station("JOAK", <<[Ft |-> Ts050000, To |-> Ts060000]>>)>>
    /\ ret = RetProg(<<[Ft |-> Ts050000, To |-> Ts060000]>>)

-----------------------------------------------------------------------------
(* C2 *)

\* C2: over a list whose Ft and To are all numeric, FindProgramByStation
\* returns the first program in listed order with Ft <= target < To, and its
\* not-found error exactly when no program of the list has Ft <= target < To;
\* when the intervals do not overlap pairwise, no other program contains the target.
C2_ContainmentFirstMatch ==
    (Finished("FindProgramByStation") /\ fetched /\ Len(snapshot) > 0
        /\ \A j \in 1..Len(progs) : WellFormed(progs[j])) =>
        LET M == {j \in 1..Len(progs) : Covers(progs[j], start)}
            disjoint == \A i, j \in 1..Len(progs) :
                           i # j => \/ TimeOf(progs[i].To) <= TimeOf(progs[j].Ft)
                                    \/ TimeOf(progs[j].To) <= TimeOf(progs[i].Ft)
        IN  /\ progs = snapshot[1].Progs
            /\ ret.status = "returned"
            /\ IF M = {}
               THEN ret.prog = <<>> /\ ret.err = NotFoundByContainment
               ELSE ret.prog = <<progs[Least(M)]>> /\ ret.err = NoErr
            /\ (ret.err = NotFoundByContainment) <=> (M = {})
            /\ (disjoint /\ M # {}) => M = {Least(M)}

\* scenario B: [05:00:00,05:00:01) then [05:00:01,06:00:00); the target 05:00:01
\* is the To of the first and the Ft of the second, which is returned
C2_Witness ==
    /\ Finished("FindProgramByStation")
    /\ start = 18001
    /\ progs = <<[Ft |-> Ts050000, To |-> Ts050001], [Ft |-> Ts050001, To |-> Ts060000]>>
    /\ ret = RetProg(<<[Ft |-> Ts050001, To |-> Ts060000]>>)

-----------------------------------------------------------------------------
(* C3 *)

\* C3: GetProgramByStartTime uses the first station in snapshot order whose ID
\* matches and lists a program starting at the target, and returns the first
\* such program of that station: with two stations of the same ID that both
\* list a program starting at the target, the program of the earlier station.
C3_FirstStationWins ==
    (Finished("GetProgramByStartTime") /\ fetched
        /\ StationsWithStart(stationID, start) # {}) =>
        LET i == Least(StationsWithStart(stationID, start))
        IN  ret.prog = <<snapshot[i].Progs[Least(StartsAt(snapshot[i].Progs, start))]>>

-----------------------------------------------------------------------------
(* C4 *)

\* C4: TimeshiftPlaylistM3U8 short-circuits on the first failing step: when
\* the construction of the playlist request fails, the call returns the
\* construction error and an empty URI, and the request is not handed on.
C4_ShortCircuit ==
    (Finished("TimeshiftPlaylistM3U8") /\ reqErr # NoErr) => ret = RetErr(reqErr)

-----------------------------------------------------------------------------
(* C5 *)

\* C5: in one TimeshiftPlaylistM3U8 call the network exchanges are a prefix of
\* <<schedule fetch, playlist request>>, each at most once; the playlist
\* request is sent only after the fetch succeeded and the lookup found a
\* program; when the fetch fails or the lookup finds nothing, that error is
\* returned and no playlist request is sent.
C5_ExchangeOrder ==
    op = "TimeshiftPlaylistM3U8" =>
        /\ Len(netlog) <= 2
        /\ Len(netlog) >= 1 => netlog[1].call = "GetStations"
        /\ Len(netlog) = 2 => netlog[2].call = "playlist"
        /\ PlaylistSent => (fetched /\ prog # <<>> /\ StationsWithStart(stationID, start) # {})
        /\ (pc = "done" /\ stationID # "" /\ ~fetched) =>
              /\ \E out \in FetchOutcomes \ {"ok"} : ret = RetErr(FetchErr(out))
              /\ ~PlaylistSent
        /\ (pc = "done" /\ fetched /\ StationsWithStart(stationID, start) = {}) =>
              /\ ret = RetErr(ErrProgramNotFound)
              /\ ~PlaylistSent

\* scenario C: the schedule fetch was sent and failed in transport; the call is
\* over with that error and the fetch is the only exchange
C5_Witness ==
    /\ Finished("TimeshiftPlaylistM3U8")
    /\ netlog = <<Exchange("GetStations", <<>>)>>
    /\ ret = RetErr(FetchErr("Do"))

-----------------------------------------------------------------------------
(* C6 *)

\* C6: FindProgramByStation reports "no interval contains the target" with the
\* same error value as GetProgramByStartTime reports "no program starts at the
\* target": ErrProgramNotFound.
C6_SameNotFoundValue ==
    (Finished("FindProgramByStation") /\ ret.status = "returned"
        /\ (\A j \in 1..Len(progs) : WellFormed(progs[j]) /\ ~Covers(progs[j], start))
        /\ fetched) =>
        ret.err = ErrProgramNotFound

-----------------------------------------------------------------------------
(* C7 *)

\* C7: FindProgramByStation never skips a malformed entry: when a program with
\* a non-numeric Ft or To comes in listed order before any program containing
\* the target, the call returns the parse error: no program and not the
\* not-found error, whatever follows in the list and whatever the other bound
\* of the malformed program is.
C7_MalformedStops ==
    (Finished("FindProgramByStation") /\ fetched /\ Len(snapshot) > 0) =>
        LET Bad == {j \in 1..Len(progs) : ~WellFormed(progs[j])}
        IN  (Bad # {} /\ \A j \in 1..(Least(Bad) - 1) : ~Covers(progs[j], start)) =>
               /\ ret.status = "returned"
               /\ ret.prog = <<>>
               /\ ret.err = NumError("Atoi", "invalid syntax")
               /\ ret.err # NotFoundByContainment
               /\ ret.err # ErrProgramNotFound

\* the first program starts after the target and has a malformed To; the
\* second is well-formed and contains the target; the parse error is returned
C7_Witness ==
    /\ Finished("FindProgramByStation")
    /\ start = 18000
    /\ progs = <<[Ft |-> Ts050001, To |-> Malformed], [Ft |-> Ts050000, To |-> Ts060000]>>
    /\ ret = RetErr(NumError("Atoi", "invalid syntax"))

-----------------------------------------------------------------------------
(* C8 *)

\* C8: with an empty station ID, GetProgramByStartTime and
\* TimeshiftPlaylistM3U8 return the parameter error, no program and an empty
\* URI, and no exchange with the service is ever issued.
C8_EmptyStationNoIO ==
    (op \in {"GetProgramByStartTime", "TimeshiftPlaylistM3U8"} /\ stationID = "") =>
        /\ netlog = <<>>
        /\ pc \in {"GetProgramByStartTime", "done"}
        /\ ~fetched
        /\ pc = "done" => ret = RetErr(ErrorsNew("StationID is empty"))

C8_Witness ==
    /\ Finished("TimeshiftPlaylistM3U8")
    /\ stationID = ""
    /\ netlog = <<>>
    /\ ret = RetErr(ErrorsNew("StationID is empty"))

-----------------------------------------------------------------------------
(* C9 *)

\* C9: every playlist request sent carries station_id = the caller's station
\* ID, ft = the Ft of the program the lookup returned, which is the 14-digit
\* formatting of the requested instant, to = the To of that same program, a
\* program of a station of the snapshot with that ID, and l = "15".
C9_PlaylistQuery ==
    \A k \in 1..Len(netlog) :
        netlog[k].call = "playlist" =>
            /\ prog # <<>>
            /\ netlog[k].query =
                  <<[station_id |-> stationID, ft |-> Datetime(start), to |-> prog[1].To, l |-> "15"]>>
            /\ prog[1].Ft = Datetime(start)
            /\ \E i \in 1..Len(snapshot) :
                  /\ snapshot[i].ID = stationID
                  /\ \E j \in 1..Len(snapshot[i].Progs) : snapshot[i].Progs[j] = prog[1]

\* the playlist request of JOAK's 05:00:00-06:00:00 program has been sent
C9_Witness ==
    /\ op = "TimeshiftPlaylistM3U8"
    /\ start = 18000
    /\ Len(netlog) = 2
    /\ netlog[2] = Exchange("playlist",
           <<[station_id |-> "JOAK", ft |-> Ts050000, to |-> Ts060000, l |-> "15"]>>)

-----------------------------------------------------------------------------
(* C10 *)

\* C10: FindProgramByStation always completes by returning a program or an
\* error, also when the decoded response lists no station.
C10_AlwaysReturns ==
    Finished("FindProgramByStation") =>
        /\ ret.status = "returned"
        /\ (ret.prog # <<>>) # (ret.err # NoErr)

====
